---- MODULE Spec2Model ----
(***************************************************************************)
(* Model of the PHP SBOM plugin (CodeClarityCE/plugin-sbom-php):           *)
(*   src/src/parser/composer_parser.go      parser and Start pipeline      *)
(*   src/src/project_finder/php_finder.go   project locator, framework     *)
(*   src/src/types/sbom.go                  output types and constants     *)
(*                                                                         *)
(* Go values are represented as follows.                                   *)
(*   string              a TLA+ string                                     *)
(*   map[string]T        a function whose DOMAIN is the key set            *)
(*   []T                 a sequence                                        *)
(*   *T                  <<>> for nil, <<v>> for a pointer to v            *)
(*   range over a map    an iteration order (a sequence enumerating the    *)
(*                       keys once each), chosen nondeterministically      *)
(***************************************************************************)
EXTENDS Integers, Sequences, FiniteSets, TLC

VARIABLES
    wsJSON,     \* buildCompatibleWorkspace: argument composerJSON (*ComposerJSON)
    wsLock,     \* buildCompatibleWorkspace: argument composerLock (*ComposerLock)
    wsOut,      \* buildCompatibleWorkspace: <<>> before the call, <<WorkSpace>> after
    fwIn,       \* detectFramework: argument composerData (ComposerJSON)
    fwOut,      \* detectFramework: <<>> before the call, <<label>> after
    rootIn,     \* findRootComposerFile: argument composerFiles ([]string)
    rootOut,    \* findRootComposerFile: <<>> before the call, <<rootFile>> after
    licIn,      \* NormalizeLicense: argument license (any)
    licOut,     \* NormalizeLicense: <<>> before the call, <<[]string>> after
    licAgain,   \* NormalizeLicense applied to the list in licOut: <<>> or <<[]string>>
    pc,         \* Start: position of the running invocation ("idle" between invocations)
    fs,         \* the directory tree Start is invoked on
    errors,     \* exceptionManager: the process-wide error list
    projectInfo,\* Start: <<>> or <<ProjectInfo>> returned by FindPHPProjects
    workspaces, \* Start: <<>> or <<map>> returned by buildCompatibleWorkspaces
    output,     \* <<>> or <<Output>> returned by the last invocation of Start
    invocations \* number of invocations of Start so far

wsVars == <<wsJSON, wsLock, wsOut>>
fwVars == <<fwIn, fwOut>>
rootVars == <<rootIn, rootOut>>
licVars == <<licIn, licOut, licAgain>>
pureVars == <<wsJSON, wsLock, wsOut, fwIn, fwOut, rootIn, rootOut,
              licIn, licOut, licAgain>>
startVars == <<pc, fs, errors, projectInfo, workspaces, output, invocations>>
vars == <<wsJSON, wsLock, wsOut, fwIn, fwOut, rootIn, rootOut,
          licIn, licOut, licAgain,
          pc, fs, errors, projectInfo, workspaces, output, invocations>>

----------------------------------------------------------------------------
(* Bounds of the explored inputs *)

\* largest number of requirements a manifest declares (Require and RequireDev together)
MaxRequires == 3
\* largest number of packages a lockfile lists (packages and packages-dev together)
MaxPackages == 2
\* largest number of composer.json paths handed to findRootComposerFile
MaxFiles == 3
\* largest number of composer.json and composer.lock files in a directory tree
MaxTreeFiles == 3
\* largest number of invocations of Start in one process
MaxInvocations == 2
\* largest number of elements of a license list
MaxLicenses == 3

----------------------------------------------------------------------------
(* Generic helpers *)

Nil == <<>>
Ptr(v) == <<v>>
Deref(p) == p[1]

EmptyMap == [k \in {} |-> ""]

\* the sequences that enumerate the set S once each: the orders in which a
\* Go `range` may visit the keys of a map with key set S
Orders(S) == {o \in [1..Cardinality(S) -> S] : \A k \in S : \E i \in DOMAIN o : o[i] = k}

Range(s) == {s[i] : i \in DOMAIN s}

SeqsUpTo(S, n) == UNION {[1..k -> S] : k \in 0..n}

\* the sequences of at most n elements of S without repetition
InjSeqsUpTo(S, n) ==
    {q \in SeqsUpTo(S, n) : \A i, j \in DOMAIN q : q[i] = q[j] => i = j}

\* strings.HasPrefix
HasPrefix(str, prefix) ==
    Len(str) >= Len(prefix) /\ SubSeq(str, 1, Len(prefix)) = prefix

RECURSIVE CountFrom(_, _, _)
CountFrom(str, sep, i) ==
    IF i > Len(str) THEN 0
    ELSE (IF SubSeq(str, i, i) = sep THEN 1 ELSE 0) + CountFrom(str, sep, i + 1)

\* strings.Count for a separator of one character
StringsCount(str, sep) == CountFrom(str, sep, 1)

PathSeparator == "/"

\* strings.Contains
StringsContains(str, sub) ==
    \E i \in 1..(Len(str) - Len(sub) + 1) : SubSeq(str, i, i + Len(sub) - 1) = sub

RECURSIVE SplitFrom(_, _, _, _)
SplitFrom(str, sep, i, cur) ==
    IF i > Len(str) THEN <<cur>>
    ELSE IF SubSeq(str, i, i) = sep
         THEN <<cur>> \o SplitFrom(str, sep, i + 1, "")
         ELSE SplitFrom(str, sep, i + 1, cur \o SubSeq(str, i, i))

\* strings.Split for a separator of one character
StringsSplit(str, sep) == SplitFrom(str, sep, 1, "")

RECURSIVE JoinNames(_)
\* strings.Join(names, "/")
JoinNames(names) ==
    IF names = <<>> THEN ""
    ELSE IF Len(names) = 1 THEN names[1]
    ELSE names[1] \o PathSeparator \o JoinNames(Tail(names))

\* the index of the last separator of a path, 0 when it has none
LastSeparator(path) ==
    LET at == {i \in 1..Len(path) : SubSeq(path, i, i) = PathSeparator}
    IN IF at = {} THEN 0 ELSE CHOOSE i \in at : \A j \in at : j <= i

\* filepath.Dir of a clean path
FilepathDir(path) ==
    LET i == LastSeparator(path)
    IN IF i = 0 THEN "."
       ELSE IF i = 1 THEN PathSeparator
       ELSE SubSeq(path, 1, i - 1)

\* filepath.Base of a clean path
FilepathBase(path) == SubSeq(path, LastSeparator(path) + 1, Len(path))

\* filepath.Join(dir, name) of a clean directory and a file name
FilepathJoin(dir, name) ==
    IF dir = "." THEN name
    ELSE IF dir = PathSeparator THEN dir \o name
    ELSE dir \o PathSeparator \o name

\* the length of the longest common prefix of two sequences
RECURSIVE CommonPrefixLen(_, _)
CommonPrefixLen(s, t) ==
    IF s = <<>> \/ t = <<>> \/ Head(s) # Head(t) THEN 0
    ELSE 1 + CommonPrefixLen(Tail(s), Tail(t))

\* filepath.Rel(base, target) of clean paths: <<>> when Rel reports an error
\* (one path absolute and the other not), else <<relative path>>
FilepathRel(base, target) ==
    LET isAbs(q) == HasPrefix(q, PathSeparator)
        names(q) == IF q = "." \/ q = "" THEN <<>>
                    ELSE IF q = PathSeparator THEN <<"">>
                    ELSE StringsSplit(q, PathSeparator)
        b == names(base)
        t == names(target)
        k == CommonPrefixLen(b, t)
        up == [i \in 1..(Len(b) - k) |-> ".."]
        rel == up \o SubSeq(t, k + 1, Len(t))
    IN IF isAbs(base) # isAbs(target) THEN <<>>
       ELSE IF rel = <<>> THEN <<".">>
       ELSE <<JoinNames(rel)>>

----------------------------------------------------------------------------
(* types/sbom.go and the constants of composer_parser.go *)

DEFAULT_WORKSPACE_CHARACTER == "."
VERSION_SEPARATOR == "@"

----------------------------------------------------------------------------
(* Dependency graph builder: composer_parser.go *)

\* variant: the isDev argument is ignored and both mappings are consulted
isDirectDependency_AnyMapping(packageName, composerJSON, isDev) ==
    IF composerJSON = Nil THEN FALSE
    ELSE \/ packageName \in DOMAIN Deref(composerJSON).RequireDev
         \/ packageName \in DOMAIN Deref(composerJSON).Require

isDirectDependency(packageName, composerJSON, isDev) ==
    IF composerJSON = Nil THEN FALSE
    ELSE IF isDev THEN packageName \in DOMAIN Deref(composerJSON).RequireDev
    ELSE packageName \in DOMAIN Deref(composerJSON).Require

isExtension(name) == Len(name) > 4 /\ SubSeq(name, 1, 4) = "ext-"

\* variant: the key is the package name alone
VersionKey_NameOnly(pkg) == pkg.Name

\* the Key of a Versions record
VersionKey(pkg) == pkg.Name \o VERSION_SEPARATOR \o pkg.Version

\* variant: Transitive is computed against the production mapping in both loops
VersionsOf_TransitiveProd(pkg, composerJSON, isDev) ==
    [ Key        |-> VersionKey(pkg),
      Optional   |-> FALSE,
      Bundled    |-> FALSE,
      Dev        |-> isDev,
      Prod       |-> ~isDev,
      Direct     |-> isDirectDependency(pkg.Name, composerJSON, isDev),
      Transitive |-> ~isDirectDependency(pkg.Name, composerJSON, FALSE) ]

\* the Versions record built for a package of the production list (isDev =
\* FALSE) or of the development list (isDev = TRUE)
VersionsOf(pkg, composerJSON, isDev) ==
    [ Key        |-> VersionKey(pkg),
      Optional   |-> FALSE,
      Bundled    |-> FALSE,
      Dev        |-> isDev,
      Prod       |-> ~isDev,
      Direct     |-> isDirectDependency(pkg.Name, composerJSON, isDev),
      Transitive |-> ~isDirectDependency(pkg.Name, composerJSON, isDev) ]

\* variant: the version is added to the versions map the name already has
PutPackage_Merge(dependencies, pkg, composerJSON, isDev) ==
    LET old == IF pkg.Name \in DOMAIN dependencies
               THEN dependencies[pkg.Name] ELSE [v \in {} |-> {}]
    IN (pkg.Name :> ((pkg.Version :> VersionsOf(pkg, composerJSON, isDev)) @@ old))
         @@ dependencies

\* one iteration of either loop: dependencies[pkg.Name] = versions, where
\* versions is a fresh map holding the single key pkg.Version
PutPackage(dependencies, pkg, composerJSON, isDev) ==
    (pkg.Name :> (pkg.Version :> VersionsOf(pkg, composerJSON, isDev))) @@ dependencies

RECURSIVE PutPackages(_, _, _, _)
PutPackages(dependencies, pkgs, composerJSON, isDev) ==
    IF pkgs = <<>> THEN dependencies
    ELSE PutPackages(PutPackage(dependencies, Head(pkgs), composerJSON, isDev),
                     Tail(pkgs), composerJSON, isDev)

\* the dependency map: empty without a lockfile, else the production list
\* processed in order, then the development list in order
BuildDependencies(composerJSON, composerLock) ==
    IF composerLock = Nil THEN [k \in {} |-> [v \in {} |-> {}]]
    ELSE PutPackages(
            PutPackages([k \in {} |-> [v \in {} |-> {}]],
                        Deref(composerLock).Packages, composerJSON, FALSE),
            Deref(composerLock).PackagesDev, composerJSON, TRUE)

\* variant: no version is looked up
getResolvedVersion_Unresolved(packageName, dependencies) == ""

\* the inner map of a name holds exactly one key in every map the builder
\* produces, so the first key a range visits is that key
getResolvedVersion(packageName, dependencies) ==
    IF packageName \in DOMAIN dependencies /\ DOMAIN dependencies[packageName] # {}
    THEN CHOOSE version \in DOMAIN dependencies[packageName] : TRUE
    ELSE ""

WorkSpaceDependency(name, requires, dependencies) ==
    [ Name       |-> name,
      Version    |-> getResolvedVersion(name, dependencies),
      Constraint |-> requires[name] ]

\* variant: only the interpreter requirement is filtered
KeepDirect_PhpOnly(name) == name # "php"

\* the production filter of the direct-dependency loop
KeepDirect(name) == name # "php" /\ ~isExtension(name)

\* the development loop appends every key of RequireDev
KeepDirectDev(name) == TRUE

RECURSIVE DirectList(_, _, _, _)
\* order: the order in which the range visits the keys of `requires`
DirectList(order, requires, dependencies, isDev) ==
    IF order = <<>> THEN <<>>
    ELSE LET name == Head(order)
             rest == DirectList(Tail(order), requires, dependencies, isDev)
             keep == IF isDev THEN KeepDirectDev(name) ELSE KeepDirect(name)
         IN IF keep
            THEN <<WorkSpaceDependency(name, requires, dependencies)>> \o rest
            ELSE rest

\* orderReq, orderDev: the iteration orders of Require and RequireDev
buildCompatibleWorkspace(composerJSON, composerLock, orderReq, orderDev) ==
    LET dependencies == BuildDependencies(composerJSON, composerLock)
    IN [ Dependencies |-> dependencies,
         Start |->
           [ Dependencies    |->
               IF composerJSON = Nil THEN <<>>
               ELSE DirectList(orderReq, Deref(composerJSON).Require, dependencies, FALSE),
             DevDependencies |->
               IF composerJSON = Nil THEN <<>>
               ELSE DirectList(orderDev, Deref(composerJSON).RequireDev, dependencies, TRUE) ] ]

ReqKeys(composerJSON) == IF composerJSON = Nil THEN {} ELSE DOMAIN Deref(composerJSON).Require
DevKeys(composerJSON) == IF composerJSON = Nil THEN {} ELSE DOMAIN Deref(composerJSON).RequireDev

----------------------------------------------------------------------------
(* Framework classifier: php_finder.go *)

HasKey(composerData, pkg) == pkg \in DOMAIN composerData.Require
HasSymfonyComponent(composerData) ==
    \E pkg \in DOMAIN composerData.Require : HasPrefix(pkg, "symfony/")

\* variant: the Laravel check placed after the Symfony checks
detectFramework_LaravelAfterSymfony(composerData) ==
    IF HasKey(composerData, "cakephp/cakephp") THEN "CakePHP"
    ELSE IF HasKey(composerData, "symfony/framework-bundle") THEN "Symfony"
    ELSE IF HasSymfonyComponent(composerData) THEN "Symfony Components"
    ELSE IF HasKey(composerData, "laravel/framework") THEN "Laravel"
    ELSE IF composerData.Type = "wordpress-plugin" \/ composerData.Type = "wordpress-theme"
         THEN "WordPress"
    ELSE IF HasKey(composerData, "johnpbloch/wordpress") THEN "WordPress"
    ELSE IF HasKey(composerData, "drupal/core") THEN "Drupal"
    ELSE IF composerData.Type = "drupal-module" \/ composerData.Type = "drupal-theme"
         THEN "Drupal"
    ELSE IF HasKey(composerData, "laminas/laminas-mvc") THEN "Laminas"
    ELSE IF HasKey(composerData, "zendframework/zend-mvc") THEN "Zend Framework"
    ELSE IF HasKey(composerData, "slim/slim") THEN "Slim"
    ELSE IF HasKey(composerData, "codeigniter4/framework") THEN "CodeIgniter 4"
    ELSE IF HasKey(composerData, "yiisoft/yii2") THEN "Yii2"
    ELSE IF HasKey(composerData, "laravel/lumen-framework") THEN "Lumen"
    ELSE "Generic PHP"

\* the chain of `if ... return` statements, in source order
detectFramework(composerData) ==
    IF HasKey(composerData, "cakephp/cakephp") THEN "CakePHP"
    ELSE IF HasKey(composerData, "laravel/framework") THEN "Laravel"
    ELSE IF HasKey(composerData, "symfony/framework-bundle") THEN "Symfony"
    ELSE IF HasSymfonyComponent(composerData) THEN "Symfony Components"
    ELSE IF composerData.Type = "wordpress-plugin" \/ composerData.Type = "wordpress-theme"
         THEN "WordPress"
    ELSE IF HasKey(composerData, "johnpbloch/wordpress") THEN "WordPress"
    ELSE IF HasKey(composerData, "drupal/core") THEN "Drupal"
    ELSE IF composerData.Type = "drupal-module" \/ composerData.Type = "drupal-theme"
         THEN "Drupal"
    ELSE IF HasKey(composerData, "laminas/laminas-mvc") THEN "Laminas"
    ELSE IF HasKey(composerData, "zendframework/zend-mvc") THEN "Zend Framework"
    ELSE IF HasKey(composerData, "slim/slim") THEN "Slim"
    ELSE IF HasKey(composerData, "codeigniter4/framework") THEN "CodeIgniter 4"
    ELSE IF HasKey(composerData, "yiisoft/yii2") THEN "Yii2"
    ELSE IF HasKey(composerData, "laravel/lumen-framework") THEN "Lumen"
    ELSE "Generic PHP"

(* Inputs of the framework classifier *)

FrameworkNames ==
    { "cakephp/cakephp", "laravel/framework", "symfony/framework-bundle",
      "symfony/console", "johnpbloch/wordpress", "drupal/core",
      "laminas/laminas-mvc", "zendframework/zend-mvc", "slim/slim",
      "codeigniter4/framework", "yiisoft/yii2", "laravel/lumen-framework",
      "monolog/monolog" }

ManifestTypes ==
    { "", "library", "project", "wordpress-plugin", "wordpress-theme",
      "drupal-module", "drupal-theme" }

FrameworkManifest(type, require, requireDev) ==
    [ Name |-> "acme/app", Type |-> type,
      Require |-> [n \in require |-> "*"],
      RequireDev |-> [n \in requireDev |-> "*"] ]

InitFW ==
    /\ \E type \in ManifestTypes, require \in SUBSET FrameworkNames,
          requireDev \in {{}, {"laravel/framework", "symfony/var-dumper"}} :
          fwIn = FrameworkManifest(type, require, requireDev)
    /\ fwOut = Nil

DetectFramework ==
    /\ fwOut = Nil
    /\ fwOut' = Ptr(detectFramework(fwIn))
    /\ UNCHANGED fwIn

----------------------------------------------------------------------------
(* Root manifest selection: php_finder.go *)

\* int(^uint(0) >> 1); every value above all depths behaves alike, the
\* 32-bit value is used
MaxInt == 2147483647

\* getRelativePath: the target itself when filepath.Rel reports an error
getRelativePath(base, target) ==
    IF FilepathRel(base, target) = <<>> THEN target
    ELSE FilepathRel(base, target)[1]

\* relPath, _ := filepath.Rel(rootDir, file): "" when Rel reports an error
\* depth := strings.Count(relPath, string(os.PathSeparator))
DepthOf(rootDir, file) ==
    LET rel == FilepathRel(rootDir, file)
        relPath == IF rel = <<>> THEN "" ELSE rel[1]
    IN StringsCount(relPath, PathSeparator)

\* variant: a manifest of equal depth replaces the one found before it
RootStep_LastWins(rootDir, acc, file) ==
    IF DepthOf(rootDir, file) <= acc.minDepth
    THEN [rootFile |-> file, minDepth |-> DepthOf(rootDir, file)]
    ELSE acc

\* one iteration of the loop over composerFiles
RootStep(rootDir, acc, file) ==
    IF DepthOf(rootDir, file) < acc.minDepth
    THEN [rootFile |-> file, minDepth |-> DepthOf(rootDir, file)]
    ELSE acc

RECURSIVE RootLoop(_, _, _)
RootLoop(rootDir, acc, composerFiles) ==
    IF composerFiles = <<>> THEN acc
    ELSE RootLoop(rootDir, RootStep(rootDir, acc, Head(composerFiles)), Tail(composerFiles))

findRootComposerFile(rootDir, composerFiles) ==
    RootLoop(rootDir, [rootFile |-> "", minDepth |-> MaxInt], composerFiles).rootFile

(* Inputs of the root manifest selection *)

RootDir == "/repo"

\* directories of the manifests below the root, as lists of directory names
ManifestDirs ==
    { <<>>, <<"a">>, <<"b">>, <<"a", "b">>, <<"a", "c">>, <<"b", "a", "d">> }

RECURSIVE JoinPath(_, _)
\* filepath.Join(base, names...)
JoinPath(base, names) ==
    IF names = <<>> THEN base
    ELSE JoinPath(base \o PathSeparator \o Head(names), Tail(names))

ManifestPath(dirs) == JoinPath(RootDir, dirs \o <<"composer.json">>)

ManifestPaths == {ManifestPath(d) : d \in ManifestDirs}

InitRoot ==
    /\ rootIn \in InjSeqsUpTo(ManifestPaths, MaxFiles)
    /\ rootOut = Nil

FindRoot ==
    /\ rootOut = Nil
    /\ rootOut' = Ptr(findRootComposerFile(RootDir, rootIn))
    /\ UNCHANGED rootIn

----------------------------------------------------------------------------
(* Inputs of the dependency graph builder *)

ManifestNames == {"php", "ext-json", "ext-", "a/x", "b/y"}
LockNames == {"a/x", "b/y"}
LockVersions == {"1.0", "2.0"}

ReqConstraint == "^1.0"
DevConstraint == "^2.0"

Manifests ==
    { [ Name |-> "acme/app", Type |-> "project",
        Require |-> [n \in r |-> ReqConstraint],
        RequireDev |-> [n \in d |-> DevConstraint] ] :
      <<r, d>> \in { p \in (SUBSET ManifestNames) \X (SUBSET ManifestNames) :
                     Cardinality(p[1]) + Cardinality(p[2]) <= MaxRequires } }

PackageInfos == [Name : LockNames, Version : LockVersions]

Locks ==
    { [ Packages |-> p[1], PackagesDev |-> p[2] ] :
      p \in { q \in SeqsUpTo(PackageInfos, MaxPackages) \X SeqsUpTo(PackageInfos, MaxPackages) :
              Len(q[1]) + Len(q[2]) <= MaxPackages } }

WSInputs ==
    /\ wsJSON \in {Nil} \cup {Ptr(m) : m \in Manifests}
    /\ wsLock \in {Nil} \cup {Ptr(l) : l \in Locks}
    /\ wsOut = Nil

BuildWorkspace ==
    /\ wsOut = Nil
    /\ \E orderReq \in Orders(ReqKeys(wsJSON)), orderDev \in Orders(DevKeys(wsJSON)) :
          wsOut' = Ptr(buildCompatibleWorkspace(wsJSON, wsLock, orderReq, orderDev))
    /\ UNCHANGED <<wsJSON, wsLock>>

\* the functions below are not being applied
WSIdle == wsJSON = Nil /\ wsLock = Nil /\ wsOut = Nil
FWIdle == fwIn = [Name |-> "", Type |-> "", Require |-> EmptyMap, RequireDev |-> EmptyMap]
          /\ fwOut = Nil
RootIdle == rootIn = <<>> /\ rootOut = Nil

----------------------------------------------------------------------------
(* License normalisation: composer_parser.go *)

\* a value of type `any` as encoding/json decodes it, or as Go converts a
\* []string to `any`: [type, str, elems] with the dynamic type, the string
\* of a string value and the elements of a slice value
AnyValue(type, str, elems) == [type |-> type, str |-> str, elems |-> elems]

StringValue(s) == AnyValue("string", s, <<>>)

\* a []string passed as `any`: its dynamic type is []string, not []any
StringSliceValue(list) ==
    AnyValue("[]string", "", [i \in DOMAIN list |-> StringValue(list[i])])

RECURSIVE StringElements(_)
\* the loop over a []any: the elements that are strings, in order
StringElements(v) ==
    IF v = <<>> THEN <<>>
    ELSE IF Head(v).type = "string"
         THEN <<Head(v).str>> \o StringElements(Tail(v))
         ELSE StringElements(Tail(v))

NormalizeLicense(license) ==
    IF license.type = "string" THEN <<license.str>>
    ELSE IF license.type = "[]interface {}" THEN StringElements(license.elems)
    ELSE <<>>

(* Inputs of the license normalisation *)

LicenseStrings == {"MIT", "Apache-2.0"}

\* the values a decoded JSON array holds: strings, a number, null
LicenseElements ==
    {StringValue(s) : s \in LicenseStrings} \cup
    {AnyValue("float64", "", <<>>), AnyValue("nil", "", <<>>)}

\* the values a license field decodes to: a string, an array, null, a
\* number, a boolean, an object
LicenseValues ==
    {StringValue(s) : s \in LicenseStrings} \cup
    {AnyValue("[]interface {}", "", l) : l \in SeqsUpTo(LicenseElements, MaxLicenses)} \cup
    {AnyValue(t, "", <<>>) : t \in {"nil", "float64", "bool", "map[string]interface {}"}}

LicIdle == licIn = AnyValue("nil", "", <<>>) /\ licOut = Nil /\ licAgain = Nil

InitLic == licIn \in LicenseValues /\ licOut = Nil /\ licAgain = Nil

----------------------------------------------------------------------------
(* The directory tree *)

\* a tree is [root, exists, walkErr, json, lock]: the path of the root
\* directory, whether it exists, whether the walk meets an unreadable entry,
\* and the composer.json
\* and composer.lock files by directory (a list of directory names below the
\* root); a file's value is what its parser returns: <<>> for an error,
\* <<content>> otherwise
TreeDirs ==
    { <<>>, <<"a">>, <<"b">>, <<"a", "c">>, <<"vendor", "pkg">>,
      <<"a", "node_modules", "pkg">> }

\* the names of the tree in the byte order filepath.Walk visits them
NameOrder ==
    << "a", "b", "c", "composer.json", "composer.lock", "node_modules", "pkg", "vendor" >>

NameRank(name) == CHOOSE i \in DOMAIN NameOrder : NameOrder[i] = name

RECURSIVE WalkBefore(_, _)
\* whether the walk visits the entry p before the entry q (lists of names)
WalkBefore(p, q) ==
    IF p = <<>> THEN q # <<>>
    ELSE IF q = <<>> THEN FALSE
    ELSE IF Head(p) = Head(q) THEN WalkBefore(Tail(p), Tail(q))
    ELSE NameRank(Head(p)) < NameRank(Head(q))

RECURSIVE WalkSeq(_)
\* the entries of a set in the order the walk visits them
WalkSeq(entries) ==
    IF entries = {} THEN <<>>
    ELSE LET first == CHOOSE p \in entries : \A q \in entries \ {p} : WalkBefore(p, q)
         IN <<first>> \o WalkSeq(entries \ {first})

\* variant: only vendor directories are skipped
SkippedDir_VendorOnly(name) == name = "vendor"

\* the directories the walk does not descend into
SkippedDir(name) == name = "vendor" \/ name = "node_modules"

Pruned(dirs) == \E i \in DOMAIN dirs : SkippedDir(dirs[i])

FilePath(rootDir, dirs, name) == JoinPath(rootDir, dirs \o <<name>>)

\* [json, lock, err]: the paths appended to composerJSONFiles and
\* composerLockFiles and whether filepath.Walk returned an error; the
\* callback is first called on rootDir itself, and SkipDir returned there
\* ends the walk without error
FindComposerFiles(rootDir, tree) ==
    LET found(files, name) ==
            LET entries == WalkSeq({dirs \o <<name>> : dirs \in {d \in DOMAIN files : ~Pruned(d)}})
            IN [i \in DOMAIN entries |-> JoinPath(rootDir, entries[i])]
    IN IF SkippedDir(FilepathBase(rootDir))
       THEN [ json |-> <<>>, lock |-> <<>>, err |-> FALSE ]
       ELSE [ json |-> found(tree.json, "composer.json"),
              lock |-> found(tree.lock, "composer.lock"),
              err  |-> tree.walkErr ]

\* os.ReadFile and json.Unmarshal of the file at `path`
ReadParsed(rootDir, files, name, path) ==
    LET at == {dirs \in DOMAIN files : FilePath(rootDir, dirs, name) = path}
    IN IF at = {} THEN Nil ELSE files[CHOOSE dirs \in at : TRUE]

ParseComposerJSON(rootDir, tree, path) ==
    ReadParsed(rootDir, tree.json, "composer.json", path)

ParseComposerLock(rootDir, tree, path) ==
    ReadParsed(rootDir, tree.lock, "composer.lock", path)

----------------------------------------------------------------------------
(* Project locator: php_finder.go *)

RECURSIVE FirstMatching(_, _)
FirstMatching(lockFiles, expectedLockPath) ==
    IF lockFiles = <<>> THEN ""
    ELSE IF Head(lockFiles) = expectedLockPath THEN Head(lockFiles)
    ELSE FirstMatching(Tail(lockFiles), expectedLockPath)

\* the paths are absolute and clean, so the comparison of the absolute
\* paths is the comparison of the paths
findMatchingLockFile(composerJSONPath, lockFiles) ==
    FirstMatching(lockFiles, FilepathJoin(FilepathDir(composerJSONPath), "composer.lock"))

DetectPHPVersion(composerData) ==
    IF "php" \in DOMAIN composerData.Require THEN composerData.Require["php"] ELSE ""

\* the lock parsed for a manifest: nil when there is no lock file beside it
\* or it cannot be read or decoded
LockFor(rootDir, tree, lockPath) ==
    IF lockPath = "" THEN Nil ELSE ParseComposerLock(rootDir, tree, lockPath)

RECURSIVE WorkspaceLoop(_, _, _, _, _)
WorkspaceLoop(rootDir, tree, rootComposerPath, composerFiles, lockFiles) ==
    IF composerFiles = <<>> THEN <<>>
    ELSE LET composerFile == Head(composerFiles)
             rest == WorkspaceLoop(rootDir, tree, rootComposerPath,
                                   Tail(composerFiles), lockFiles)
             rootComposerDir == FilepathDir(rootComposerPath)
             composerData == ParseComposerJSON(rootDir, tree, composerFile)
             lockPath == findMatchingLockFile(composerFile, lockFiles)
         IN IF composerFile = rootComposerPath THEN rest
            ELSE IF StringsContains(composerFile, "/vendor/") THEN rest
            ELSE IF composerData = Nil THEN rest
            ELSE << [ Name                 |-> Deref(composerData).Name,
                      Path                 |-> FilepathDir(composerFile),
                      ComposerJSONPath     |-> composerFile,
                      ComposerLockPath     |-> lockPath,
                      RelativeComposerJSON |-> getRelativePath(rootComposerDir, composerFile),
                      RelativeComposerLock |->
                          IF lockPath = "" THEN ""
                          ELSE getRelativePath(rootComposerDir, lockPath),
                      ComposerJSON         |-> composerData,
                      ComposerLock         |-> LockFor(rootDir, tree, lockPath) ] >> \o rest

findWorkspaces(rootDir, tree, rootComposerPath, composerFiles, lockFiles) ==
    WorkspaceLoop(rootDir, tree, rootComposerPath, composerFiles, lockFiles)

\* variant: the error of the walk is dropped
WalkFailed_Never(files) == FALSE

\* `err != nil` after FindComposerFiles
WalkFailed(files) == files.err

\* [err, info]: err is "" and info the ProjectInfo, or err names the error
\* returned and info is nil
FindPHPProjects(rootDir, tree) ==
    LET files == FindComposerFiles(rootDir, tree)
        rootComposerJSON == findRootComposerFile(rootDir, files.json)
        rootComposerLock == findMatchingLockFile(rootComposerJSON, files.lock)
        composerData == ParseComposerJSON(rootDir, tree, rootComposerJSON)
    IN IF WalkFailed(files)
       THEN [err |-> "failed to find composer files", info |-> Nil]
       ELSE IF Len(files.json) = 0
            THEN [err |-> "no composer.json files found", info |-> Nil]
       ELSE IF composerData = Nil
            THEN [err |-> "failed to parse root composer.json", info |-> Nil]
       ELSE [ err |-> "",
              info |-> Ptr(
                [ Name                 |-> Deref(composerData).Name,
                  RootDir              |-> rootDir,
                  ComposerJSONPath     |-> rootComposerJSON,
                  ComposerLockPath     |-> rootComposerLock,
                  RelativeComposerJSON |-> getRelativePath(rootDir, rootComposerJSON),
                  RelativeComposerLock |-> getRelativePath(rootDir, rootComposerLock),
                  ComposerJSON         |-> composerData,
                  ComposerLock         |-> LockFor(rootDir, tree, rootComposerLock),
                  Framework            |-> detectFramework(Deref(composerData)),
                  IsMonorepo           |-> Len(files.json) > 1,
                  Workspaces           |->
                      IF Len(files.json) > 1
                      THEN findWorkspaces(rootDir, tree, rootComposerJSON,
                                          files.json, files.lock)
                      ELSE <<>> ]) ]

----------------------------------------------------------------------------
(* Start and the output assembler: composer_parser.go *)

SUCCESS == "success"
FAILURE == "failure"

\* exceptionManager.AddError(publicDescription, publicType, privateDescription, privateType)
AddError(list, publicType, privateType) ==
    Append(list, [PublicType |-> publicType, PrivateType |-> privateType])

\* exceptionManager.GetErrors()
GetErrors(list) == list

\* variant: a secondary workspace is stored under its package name
WorkspaceKey_Name(ws) == ws.Name

\* the key a secondary workspace is stored under
WorkspaceKey(ws) == ws.RelativeComposerJSON

\* the manifests of the project in the order buildCompatibleWorkspaces
\* builds them: the root, then the workspaces of a monorepo
BuiltManifests(info) ==
    <<[key |-> DEFAULT_WORKSPACE_CHARACTER, json |-> info.ComposerJSON,
       lock |-> info.ComposerLock]>> \o
    (IF info.IsMonorepo
     THEN [i \in DOMAIN info.Workspaces |->
             [key  |-> WorkspaceKey(info.Workspaces[i]),
              json |-> info.Workspaces[i].ComposerJSON,
              lock |-> info.Workspaces[i].ComposerLock]]
     ELSE <<>>)

\* the choices of iteration orders for the maps of the manifests built: one
\* pair <<order of Require, order of RequireDev>> per manifest
OrderChoices(info) ==
    LET built == BuiltManifests(info)
        pairs(i) == Orders(ReqKeys(built[i].json)) \X Orders(DevKeys(built[i].json))
    IN {o \in [DOMAIN built -> UNION {pairs(i) : i \in DOMAIN built}] :
          \A i \in DOMAIN built : o[i] \in pairs(i)}

RECURSIVE PutWorkspaces(_, _, _, _)
PutWorkspaces(map, built, orders, i) ==
    IF i > Len(built) THEN map
    ELSE PutWorkspaces(
            (built[i].key :> buildCompatibleWorkspace(built[i].json, built[i].lock,
                                                      orders[i][1], orders[i][2])) @@ map,
            built, orders, i + 1)

buildCompatibleWorkspaces(info, orders) ==
    PutWorkspaces([k \in {} |-> {}], BuiltManifests(info), orders, 1)

getProjectName(composerJSON) ==
    IF composerJSON # Nil /\ Deref(composerJSON).Name # ""
    THEN Deref(composerJSON).Name ELSE "unknown"

generateCompatibleAnalysisInfo(info, errorList) ==
    [ Status           |-> SUCCESS,
      ProjectName      |-> getProjectName(info.ComposerJSON),
      WorkingDirectory |-> FilepathDir(info.ComposerJSONPath),
      Errors           |-> GetErrors(errorList),
      Paths            |->
        [ Lockfile             |-> info.ComposerLockPath,
          PackageFile          |-> info.ComposerJSONPath,
          RelativeLockFile     |-> info.RelativeComposerLock,
          RelativePackageFile  |-> info.RelativeComposerJSON ],
      WorkSpacesUsed   |-> info.IsMonorepo,
      PHPVersion       |-> DetectPHPVersion(Deref(info.ComposerJSON)),
      Framework        |-> info.Framework ]

generateFailureOutput(projectName, errorList) ==
    [ WorkSpaces   |-> [k \in {} |-> {}],
      AnalysisInfo |->
        [ Status           |-> FAILURE,
          ProjectName      |-> projectName,
          WorkingDirectory |-> "",
          Errors           |-> GetErrors(errorList),
          Paths            |->
            [ Lockfile |-> "", PackageFile |-> "",
              RelativeLockFile |-> "", RelativePackageFile |-> "" ],
          WorkSpacesUsed   |-> FALSE,
          PHPVersion       |-> "",
          Framework        |-> "" ] ]

(* Inputs of Start *)

TreeManifests ==
    { [ Name |-> "acme/app", Type |-> "project",
        Require |-> ("php" :> "^8.1") @@ ("cakephp/cakephp" :> "^4.0"),
        RequireDev |-> ("phpunit/phpunit" :> "^9.0") ],
      [ Name |-> "", Type |-> "library",
        Require |-> ("a/x" :> "^1.0"),
        RequireDev |-> ("ext-json" :> "*") ] }

TreeLocks ==
    { [ Packages |-> << [Name |-> "cakephp/cakephp", Version |-> "4.5.0"],
                        [Name |-> "a/x", Version |-> "1.0"] >>,
        PackagesDev |-> << [Name |-> "phpunit/phpunit", Version |-> "9.6.0"] >> ] }

\* the root directories Start is called on: one of them lies below a
\* directory named vendor, one is itself named vendor
TreeRoots == { RootDir, "/vendor/repo", "/srv/vendor" }

NoTree ==
    [root |-> RootDir, exists |-> FALSE, walkErr |-> FALSE,
     json |-> [d \in {} |-> Nil], lock |-> [d \in {} |-> Nil]]

\* the directories in which the trees explored hold a composer.lock
TreeLockDirs == { <<>>, <<"a">>, <<"vendor", "pkg">> }

\* a tree without root directory, or a tree of at most MaxTreeFiles files;
\* the trees whose walk fails hold at most one file, the files found by a
\* failed walk being dropped by FindPHPProjects; so do the trees whose root
\* is named vendor, the walk seeing none of their files; the trees below a
\* directory named vendor hold manifests only
IsTree(tree) ==
    \/ tree = NoTree
    \/ \E J \in SUBSET TreeDirs, L \in SUBSET TreeLockDirs :
          /\ Cardinality(J) + Cardinality(L) <= MaxTreeFiles
          /\ \E json \in [J -> {Nil} \cup {Ptr(m) : m \in TreeManifests}],
                lock \in [L -> {Nil} \cup {Ptr(l) : l \in TreeLocks}],
                walkErr \in BOOLEAN, root \in TreeRoots :
                /\ walkErr => Cardinality(J) + Cardinality(L) <= 1
                /\ SkippedDir(FilepathBase(root)) => Cardinality(J) + Cardinality(L) <= 1
                /\ StringsContains(root, "/vendor/") => L = {}
                /\ tree = [root |-> root, exists |-> TRUE, walkErr |-> walkErr,
                           json |-> json, lock |-> lock]

StartIdle ==
    /\ pc = "idle"
    /\ fs = NoTree
    /\ errors = <<>>
    /\ projectInfo = Nil
    /\ workspaces = Nil
    /\ output = Nil
    /\ invocations = 0

\* Start is called on a directory tree
Invoke ==
    /\ pc = "idle"
    /\ invocations < MaxInvocations
    /\ IsTree(fs')
    /\ pc' = "checkDir"
    /\ projectInfo' = Nil
    /\ workspaces' = Nil
    /\ output' = Nil
    /\ invocations' = invocations + 1
    /\ UNCHANGED <<errors, pureVars>>

\* variant: the error of the directory check is recorded and the invocation
\* goes on to the locator
CheckDir_NoReturn ==
    /\ pc = "checkDir"
    /\ errors' = IF fs.exists THEN errors
                 ELSE AddError(errors, "GENERIC_ERROR", "SourceCodeDirDoesNotExist")
    /\ pc' = "locate"
    /\ UNCHANGED <<fs, output, projectInfo, workspaces, invocations, pureVars>>

\* os.Stat(sourceCodeDir)
CheckDir ==
    /\ pc = "checkDir"
    /\ IF ~fs.exists
       THEN LET list == AddError(errors, "GENERIC_ERROR", "SourceCodeDirDoesNotExist")
            IN /\ errors' = list
               /\ output' = Ptr(generateFailureOutput("", list))
               /\ pc' = "done"
       ELSE /\ pc' = "locate"
            /\ UNCHANGED <<errors, output>>
    /\ UNCHANGED <<fs, projectInfo, workspaces, invocations, pureVars>>

\* project_finder.FindPHPProjects(sourceCodeDir)
Locate ==
    /\ pc = "locate"
    /\ LET found == FindPHPProjects(fs.root, fs)
       IN IF found.err # ""
          THEN LET list == AddError(errors, "UNSUPPORTED_LANGUAGE_REQUESTED",
                                    "UNSUPPORTED_LANGUAGE_REQUESTED")
               IN /\ errors' = list
                  /\ output' = Ptr(generateFailureOutput("", list))
                  /\ pc' = "done"
                  /\ UNCHANGED projectInfo
          ELSE /\ projectInfo' = found.info
               /\ pc' = "build"
               /\ UNCHANGED <<errors, output>>
    /\ UNCHANGED <<fs, workspaces, invocations, pureVars>>

\* buildCompatibleWorkspaces(projectInfo)
Build ==
    /\ pc = "build"
    /\ \E orders \in OrderChoices(Deref(projectInfo)) :
          workspaces' = Ptr(buildCompatibleWorkspaces(Deref(projectInfo), orders))
    /\ pc' = "assemble"
    /\ UNCHANGED <<fs, errors, projectInfo, output, invocations, pureVars>>

\* generateCompatibleAnalysisInfo(projectInfo, start) and the Output literal
Assemble ==
    /\ pc = "assemble"
    /\ output' = Ptr([ WorkSpaces   |-> Deref(workspaces),
                       AnalysisInfo |->
                           generateCompatibleAnalysisInfo(Deref(projectInfo), errors) ])
    /\ pc' = "done"
    /\ UNCHANGED <<fs, errors, projectInfo, workspaces, invocations, pureVars>>

\* Start returns its Output to the caller: the locals of the invocation are
\* gone, the error list of exceptionManager stays
Return ==
    /\ pc = "done"
    /\ pc' = "idle"
    /\ fs' = NoTree
    /\ projectInfo' = Nil
    /\ workspaces' = Nil
    /\ output' = Nil
    /\ UNCHANGED <<errors, invocations, pureVars>>

----------------------------------------------------------------------------
(* Specification of the plugin: invocations of Start, one after another *)

Init == StartIdle /\ WSIdle /\ FWIdle /\ RootIdle /\ LicIdle

Next ==
    \/ Invoke
    \/ CheckDir
    \/ Locate
    \/ Build
    \/ Assemble
    \/ Return

Spec == Init /\ [][Next]_vars

----------------------------------------------------------------------------
(* Specifications of the pure functions: the inputs are drawn by the       *)
(* initial predicate and the action applies the function once              *)

\* buildCompatibleWorkspace
InitWS == WSInputs /\ FWIdle /\ RootIdle /\ LicIdle /\ StartIdle
NextWS == BuildWorkspace /\ UNCHANGED <<fwVars, rootVars, licVars, startVars>>
SpecWS == InitWS /\ [][NextWS]_vars

\* detectFramework
InitFramework == InitFW /\ WSIdle /\ RootIdle /\ LicIdle /\ StartIdle
NextFramework == DetectFramework /\ UNCHANGED <<wsVars, rootVars, licVars, startVars>>
SpecFramework == InitFramework /\ [][NextFramework]_vars

\* findRootComposerFile
InitRootFile == InitRoot /\ WSIdle /\ FWIdle /\ LicIdle /\ StartIdle
NextRootFile == FindRoot /\ UNCHANGED <<wsVars, fwVars, licVars, startVars>>
SpecRootFile == InitRootFile /\ [][NextRootFile]_vars

\* NormalizeLicense(license)
Normalize ==
    /\ licOut = Nil
    /\ licOut' = Ptr(NormalizeLicense(licIn))
    /\ UNCHANGED <<licIn, licAgain, wsVars, fwVars, rootVars, startVars>>

\* NormalizeLicense(list) for the list the first call returned
NormalizeAgain ==
    /\ licOut # Nil /\ licAgain = Nil
    /\ licAgain' = Ptr(NormalizeLicense(StringSliceValue(Deref(licOut))))
    /\ UNCHANGED <<licIn, licOut, wsVars, fwVars, rootVars, startVars>>

InitLicense == InitLic /\ WSIdle /\ FWIdle /\ RootIdle /\ StartIdle
NextLicense ==
    \/ Normalize
    \/ NormalizeAgain
SpecLicense == InitLicense /\ [][NextLicense]_vars

----------------------------------------------------------------------------
(* Properties of the dependency graph builder, checked under SpecWS *)

\* the dependency map of the workspace that was built
Deps == Deref(wsOut).Dependencies

\* the (name, version key) pairs of the dependency map
EntryKeys == {<<n, v>> \in UNION {{n2} \X DOMAIN Deps[n2] : n2 \in DOMAIN Deps} : TRUE}

NamesOf(pkgs) == {pkgs[i].Name : i \in DOMAIN pkgs}

\* the version of the last package named n in the list pkgs
LastVersion(pkgs, n) ==
    pkgs[CHOOSE i \in DOMAIN pkgs :
            /\ pkgs[i].Name = n
            /\ \A j \in DOMAIN pkgs : pkgs[j].Name = n => j <= i].Version

\* C1: in the dependency map of every workspace built, each entry has exactly
\* one of Dev/Prod true and exactly one of Direct/Transitive true.
C1_FlagPairs ==
    wsOut # Nil =>
        \A k \in EntryKeys :
            LET e == Deps[k[1]][k[2]]
            IN /\ e.Dev # e.Prod
               /\ e.Direct # e.Transitive

\* a workspace built with a manifest from a lockfile that lists a name in
\* both lists, the name being declared in RequireDev and Require
C1_Witness ==
    /\ wsOut # Nil /\ wsLock # Nil /\ wsJSON # Nil
    /\ \E k \in EntryKeys :
          /\ Deps[k[1]][k[2]].Direct
          /\ k[1] \in ReqKeys(wsJSON) \cap DevKeys(wsJSON)
          /\ k[1] \in NamesOf(Deref(wsLock).Packages) \cap NamesOf(Deref(wsLock).PackagesDev)

\* C2: an entry is Direct iff its name is a key of the manifest mapping that
\* matches the entry's own classification (Require for Prod, RequireDev for
\* Dev), and Transitive otherwise; a name in neither mapping is Transitive.
C2_DirectIffOwnMapping ==
    wsOut # Nil =>
        \A k \in EntryKeys :
            LET e == Deps[k[1]][k[2]]
                own == IF e.Prod THEN ReqKeys(wsJSON) ELSE DevKeys(wsJSON)
            IN /\ e.Direct = (k[1] \in own)
               /\ e.Transitive = (k[1] \notin own)
               /\ (k[1] \notin ReqKeys(wsJSON) \cup DevKeys(wsJSON)) => e.Transitive

\* a Dev entry that is transitive although Require names it, next to an
\* entry whose name no mapping declares
C2_Witness ==
    /\ wsOut # Nil
    /\ \E k1, k2 \in EntryKeys :
          /\ Deps[k1[1]][k1[2]].Dev /\ Deps[k1[1]][k1[2]].Transitive
          /\ k1[1] \in ReqKeys(wsJSON)
          /\ k2[1] \notin ReqKeys(wsJSON) \cup DevKeys(wsJSON)

InExactlyOne(n) == (n \in ReqKeys(wsJSON)) # (n \in DevKeys(wsJSON))

\* C3 as stated: a resolved package named in exactly one of Require and
\* RequireDev has Direct = TRUE whichever list it came from, and the name
\* has no entry of the opposite dev/prod type.
C3_Original ==
    wsOut # Nil =>
        \A n \in DOMAIN Deps :
            InExactlyOne(n) =>
                /\ \A v \in DOMAIN Deps[n] : Deps[n][v].Direct
                /\ \A v1, v2 \in DOMAIN Deps[n] : Deps[n][v1].Dev = Deps[n][v2].Dev

\* C3 amended: for a name in exactly one of the two mappings, the name has a
\* single entry; it is a Dev entry iff the development list names the
\* package, and it is Direct iff the list it was built from matches the
\* mapping that declares it (production list and Require, development list
\* and RequireDev).
C3_DirectWhenListMatches ==
    wsOut # Nil /\ wsLock # Nil =>
        \A n \in DOMAIN Deps :
            InExactlyOne(n) =>
                LET fromDev == n \in NamesOf(Deref(wsLock).PackagesDev)
                IN /\ Cardinality(DOMAIN Deps[n]) = 1
                   /\ \A v \in DOMAIN Deps[n] :
                         /\ Deps[n][v].Dev = fromDev
                         /\ Deps[n][v].Prod = ~fromDev
                         /\ Deps[n][v].Direct =
                              IF fromDev THEN n \in DevKeys(wsJSON)
                              ELSE n \in ReqKeys(wsJSON)

\* both cases at once: a name declared in Require only and resolved in the
\* development list, and a name declared and resolved on the same side
C3_Witness ==
    /\ wsOut # Nil /\ wsLock # Nil
    /\ \E n1, n2 \in DOMAIN Deps :
          /\ InExactlyOne(n1) /\ n1 \in ReqKeys(wsJSON)
          /\ n1 \in NamesOf(Deref(wsLock).PackagesDev)
          /\ InExactlyOne(n2) /\ n2 \in DevKeys(wsJSON)
          /\ n2 \in NamesOf(Deref(wsLock).PackagesDev)

InBothLists(n) ==
    /\ wsLock # Nil
    /\ n \in NamesOf(Deref(wsLock).Packages)
    /\ n \in NamesOf(Deref(wsLock).PackagesDev)

\* C4: for a name listed in both lockfile lists the map holds only the entry
\* built from the development list: one version key, the development
\* package's version, Dev and not Prod, Direct decided against RequireDev,
\* and the key of that version.
C4_DevOverwritesProd ==
    wsOut # Nil =>
        \A n \in LockNames :
            InBothLists(n) =>
                LET v == LastVersion(Deref(wsLock).PackagesDev, n)
                IN /\ n \in DOMAIN Deps
                   /\ DOMAIN Deps[n] = {v}
                   /\ Deps[n][v].Dev /\ ~Deps[n][v].Prod
                   /\ Deps[n][v].Direct = (n \in DevKeys(wsJSON))
                   /\ Deps[n][v].Key = n \o "@" \o v

\* a name resolved to different versions in the two lists and declared in
\* Require only
C4_Witness ==
    /\ wsOut # Nil
    /\ \E n \in LockNames :
          /\ InBothLists(n)
          /\ n \in ReqKeys(wsJSON) \ DevKeys(wsJSON)
          /\ LastVersion(Deref(wsLock).Packages, n) # LastVersion(Deref(wsLock).PackagesDev, n)

StartDeps == Deref(wsOut).Start.Dependencies
StartDevDeps == Deref(wsOut).Start.DevDependencies

NoDependencies == [k \in {} |-> [v \in {} |-> {}]]

\* a list reduced to the names and constraints of its entries
NamesAndConstraints(list) ==
    [i \in DOMAIN list |-> [Name |-> list[i].Name, Constraint |-> list[i].Constraint]]

\* the keys of Require that are neither "php" nor prefixed with "ext-"
InstallableKeys == {n \in ReqKeys(wsJSON) : n # "php" /\ ~HasPrefix(n, "ext-")}

\* the keys of Require that are neither "php" nor a name of more than four
\* characters prefixed with "ext-"
ListedKeys ==
    {n \in ReqKeys(wsJSON) : n # "php" /\ ~(Len(n) > 4 /\ HasPrefix(n, "ext-"))}

\* C6 as stated: Start.Dependencies holds exactly one entry for each key of
\* Require other than "php" and the names prefixed with "ext-", none for
\* those, and is the list that would be built without any lockfile.
C6_Original ==
    wsOut # Nil /\ wsJSON # Nil =>
        /\ \A n \in InstallableKeys :
              Cardinality({i \in DOMAIN StartDeps : StartDeps[i].Name = n}) = 1
        /\ \A i \in DOMAIN StartDeps : StartDeps[i].Name \in InstallableKeys
        /\ \E order \in Orders(ReqKeys(wsJSON)) :
              StartDeps = DirectList(order, Deref(wsJSON).Require, NoDependencies, FALSE)

\* C6 amended: Start.Dependencies holds exactly one entry for each key of
\* Require other than "php" and the names of more than four characters
\* prefixed with "ext-" (the bare name "ext-" is listed), none for those, and
\* the names and constraints of its entries are those of the list built
\* without any lockfile; the Version of an entry does depend on the lockfile.
C6_StartDependencies ==
    wsOut # Nil /\ wsJSON # Nil =>
        /\ \A n \in ListedKeys :
              Cardinality({i \in DOMAIN StartDeps : StartDeps[i].Name = n}) = 1
        /\ \A i \in DOMAIN StartDeps : StartDeps[i].Name \in ListedKeys
        /\ \E order \in Orders(ReqKeys(wsJSON)) :
              NamesAndConstraints(StartDeps) =
                NamesAndConstraints(
                    DirectList(order, Deref(wsJSON).Require, NoDependencies, FALSE))

\* a manifest requiring "php", an extension and a package the lockfile
\* resolves: the package is listed with its resolved version
C6_Witness ==
    /\ wsOut # Nil /\ wsJSON # Nil /\ wsLock # Nil
    /\ {"php", "ext-json", "a/x"} \subseteq ReqKeys(wsJSON)
    /\ "a/x" \in DOMAIN Deps
    /\ Len(StartDeps) = 1
    /\ StartDeps[1].Name = "a/x" /\ StartDeps[1].Version # ""

\* C7 as stated: Start.DevDependencies never holds "php" nor a name prefixed
\* with "ext-", even when RequireDev declares them.
C7_Original ==
    wsOut # Nil =>
        \A i \in DOMAIN StartDevDeps :
            StartDevDeps[i].Name # "php" /\ ~HasPrefix(StartDevDeps[i].Name, "ext-")

----------------------------------------------------------------------------
(* Properties of the framework classifier, checked under SpecFramework *)

\* the primary framework packages and the label of each
PrimaryLabel ==
    [ pkg \in { "cakephp/cakephp", "laravel/framework", "symfony/framework-bundle",
                "johnpbloch/wordpress", "drupal/core", "laminas/laminas-mvc",
                "zendframework/zend-mvc", "slim/slim", "codeigniter4/framework",
                "yiisoft/yii2", "laravel/lumen-framework" } |->
        CASE pkg = "cakephp/cakephp" -> "CakePHP"
          [] pkg = "laravel/framework" -> "Laravel"
          [] pkg = "symfony/framework-bundle" -> "Symfony"
          [] pkg = "johnpbloch/wordpress" -> "WordPress"
          [] pkg = "drupal/core" -> "Drupal"
          [] pkg = "laminas/laminas-mvc" -> "Laminas"
          [] pkg = "zendframework/zend-mvc" -> "Zend Framework"
          [] pkg = "slim/slim" -> "Slim"
          [] pkg = "codeigniter4/framework" -> "CodeIgniter 4"
          [] pkg = "yiisoft/yii2" -> "Yii2"
          [] pkg = "laravel/lumen-framework" -> "Lumen" ]

\* the package-type tags and the label of each
TypeTagLabel ==
    [ tag \in {"wordpress-plugin", "wordpress-theme", "drupal-module", "drupal-theme"} |->
        IF tag \in {"wordpress-plugin", "wordpress-theme"} THEN "WordPress" ELSE "Drupal" ]

PrimaryPresent == DOMAIN PrimaryLabel \cap DOMAIN fwIn.Require
HasTypeTag == fwIn.Type \in DOMAIN TypeTagLabel
HasSymfonyPrefix == \E pkg \in DOMAIN fwIn.Require : HasPrefix(pkg, "symfony/")

\* C8 as stated: the primary-package rules are all checked before the
\* type-tag rules, and those before the symfony/ prefix sweep, so the label
\* is that of a required primary package if there is one, else that of the
\* type tag if there is one, else "Symfony Components" if a symfony/ name is
\* required.
C8_Original ==
    fwOut # Nil =>
        /\ PrimaryPresent # {} =>
              Deref(fwOut) \in {PrimaryLabel[pkg] : pkg \in PrimaryPresent}
        /\ PrimaryPresent = {} /\ HasTypeTag =>
              Deref(fwOut) = TypeTagLabel[fwIn.Type]
        /\ PrimaryPresent = {} /\ ~HasTypeTag /\ HasSymfonyPrefix =>
              Deref(fwOut) = "Symfony Components"

MatchesNoRule == PrimaryPresent = {} /\ ~HasTypeTag /\ ~HasSymfonyPrefix

\* C9 as stated: a manifest requiring laravel/framework is labelled
\* "Laravel" whatever else it requires; one matching no rule is labelled
\* "Generic PHP".
C9_Original ==
    fwOut # Nil =>
        /\ "laravel/framework" \in DOMAIN fwIn.Require => Deref(fwOut) = "Laravel"
        /\ MatchesNoRule => Deref(fwOut) = "Generic PHP"

\* C9 amended: a manifest requiring laravel/framework and not
\* cakephp/cakephp is labelled "Laravel" whatever else it requires; one
\* matching no rule is labelled "Generic PHP".
C9_LaravelUnlessCake ==
    fwOut # Nil =>
        /\ ("laravel/framework" \in DOMAIN fwIn.Require
              /\ "cakephp/cakephp" \notin DOMAIN fwIn.Require) =>
              Deref(fwOut) = "Laravel"
        /\ MatchesNoRule => Deref(fwOut) = "Generic PHP"

\* laravel/framework required next to Symfony components, another primary
\* package and a type tag
C9_Witness ==
    /\ fwOut = Ptr("Laravel")
    /\ {"laravel/framework", "symfony/console", "symfony/framework-bundle", "drupal/core"}
          \subseteq DOMAIN fwIn.Require
    /\ fwIn.Type = "wordpress-plugin"

----------------------------------------------------------------------------
(* Properties of the root manifest selection, checked under SpecRootFile *)

\* the number of directories between the root directory and a manifest
DirDepth(path) == Len(CHOOSE dirs \in ManifestDirs : ManifestPath(dirs) = path)

\* C10: for a non-empty list, the manifest returned is one of the list, no
\* manifest of the list is less deep, and every manifest before it in the
\* list is deeper.
C10_ShallowestFirst ==
    rootOut # Nil /\ rootIn # <<>> =>
        \E i \in DOMAIN rootIn :
            /\ rootIn[i] = Deref(rootOut)
            /\ \A j \in DOMAIN rootIn :
                  /\ DirDepth(rootIn[j]) >= DirDepth(rootIn[i])
                  /\ j < i => DirDepth(rootIn[j]) > DirDepth(rootIn[i])

\* a deeper manifest first, then two manifests of the same minimal depth
C10_Witness ==
    /\ rootOut # Nil /\ Len(rootIn) = 3
    /\ DirDepth(rootIn[1]) = 2 /\ DirDepth(rootIn[2]) = 1 /\ DirDepth(rootIn[3]) = 1
    /\ Deref(rootOut) = rootIn[2]

----------------------------------------------------------------------------
(* Properties of Start, checked under Spec *)

\* the invocation has returned Success
Succeeded ==
    /\ pc = "done" /\ output # Nil /\ projectInfo # Nil
    /\ Deref(output).AnalysisInfo.Status = SUCCESS

\* C5 as stated: an invocation that locates a project ends in Success, and
\* the dependency map of each of its workspaces that has a manifest and no
\* lockfile holds, for every name of Require and RequireDev, one entry under
\* the empty version key with Transitive = FALSE.
C5_Original ==
    pc = "done" /\ projectInfo # Nil =>
        /\ Succeeded
        /\ LET built == BuiltManifests(Deref(projectInfo))
           IN \A i \in DOMAIN built :
                 built[i].lock = Nil =>
                     LET deps == Deref(output).WorkSpaces[built[i].key].Dependencies
                     IN \A n \in ReqKeys(built[i].json) \cup DevKeys(built[i].json) :
                           /\ n \in DOMAIN deps
                           /\ DOMAIN deps[n] = {""}
                           /\ ~deps[n][""].Transitive

\* the manifests FindComposerFiles finds in the tree of the invocation, the
\* root manifest among them, and the others that parse
FoundManifests == FindComposerFiles(fs.root, fs).json

FoundRoot == findRootComposerFile(fs.root, FoundManifests)

ParsingSecondaries ==
    { f \in Range(FoundManifests) :
        f # FoundRoot /\ ParseComposerJSON(fs.root, fs, f) # Nil }

\* the locator has run on a tree in which the walk found a manifest
Located ==
    /\ pc \in {"build", "assemble", "done"}
    /\ fs.exists /\ ~fs.walkErr
    /\ FoundManifests # <<>>

\* C11 as stated: when the root manifest parses, IsMonorepo is TRUE exactly
\* when more than one manifest was found, and then Workspaces holds one
\* record for every non-root manifest that parses and none for the others,
\* no error being added; when the root manifest does not parse, the locator
\* returns an error and Start returns Failure.
C11_Original ==
    Located =>
        IF ParseComposerJSON(fs.root, fs, FoundRoot) = Nil
        THEN /\ pc = "done" /\ projectInfo = Nil
             /\ Deref(output).AnalysisInfo.Status = FAILURE
        ELSE /\ projectInfo # Nil
             /\ LET info == Deref(projectInfo)
                IN /\ info.IsMonorepo <=> Len(FoundManifests) > 1
                   /\ info.IsMonorepo =>
                        /\ Len(info.Workspaces) = Cardinality(ParsingSecondaries)
                        /\ { w.ComposerJSONPath : w \in Range(info.Workspaces) }
                              = ParsingSecondaries
             /\ invocations = 1 => errors = <<>>

\* the Output has the Success shape
SuccessShape(out) ==
    /\ out.AnalysisInfo.Status = SUCCESS
    /\ DEFAULT_WORKSPACE_CHARACTER \in DOMAIN out.WorkSpaces

\* the Output has the Failure shape
FailureShape(out) ==
    /\ out.AnalysisInfo.Status = FAILURE
    /\ DOMAIN out.WorkSpaces = {}
    /\ out.AnalysisInfo.Errors # <<>>

\* the root directory exists, a manifest is found and the root manifest parses
RootManifestUsable ==
    /\ fs.exists
    /\ FoundManifests # <<>>
    /\ ParseComposerJSON(fs.root, fs, FoundRoot) # Nil

\* C12 as stated: Start returns the Success shape exactly when the root
\* directory exists, a manifest is found and the root manifest parses, and
\* the Failure shape otherwise.
C12_Original ==
    pc = "done" =>
        /\ output # Nil
        /\ IF RootManifestUsable
           THEN SuccessShape(Deref(output)) /\ ~FailureShape(Deref(output))
           ELSE FailureShape(Deref(output)) /\ ~SuccessShape(Deref(output))

\* C12: Start returns the Success shape exactly when the root directory
\* exists, the walk of the tree ends without error, a manifest is found and
\* the root manifest parses; in every other case (root directory missing,
\* walk failed, no manifest, root manifest malformed) it returns the Failure
\* shape. Every invocation returns one of the two shapes and never both.
C12_TwoShapes ==
    pc = "done" =>
        /\ output # Nil
        /\ IF RootManifestUsable /\ ~fs.walkErr
           THEN SuccessShape(Deref(output)) /\ ~FailureShape(Deref(output))
           ELSE FailureShape(Deref(output)) /\ ~SuccessShape(Deref(output))

\* Start has returned Failure on a tree whose root manifest was found and
\* parses, the walk of the tree having failed
C12_Witness ==
    /\ pc = "done" /\ output # Nil
    /\ RootManifestUsable /\ fs.walkErr
    /\ FailureShape(Deref(output))

\* C13 as stated: the error list of the Output holds the errors of the
\* invocation and no other: on a missing root directory it is the single
\* source-directory-missing entry, and on a successful invocation it holds
\* no entry of an earlier invocation of the process.
C13_Original ==
    pc = "done" /\ output # Nil =>
        LET list == Deref(output).AnalysisInfo.Errors
        IN /\ ~fs.exists =>
                /\ Len(list) = 1
                /\ list[1].PrivateType = "SourceCodeDirDoesNotExist"
           /\ Deref(output).AnalysisInfo.Status = SUCCESS => list = <<>>

\* a composer.lock lies beside the root manifest and cannot be read or decoded
RootLockMalformed ==
    /\ Located /\ ~WalkFailed(FindComposerFiles(fs.root, fs))
    /\ LET lockPath == findMatchingLockFile(FoundRoot, FindComposerFiles(fs.root, fs).lock)
       IN lockPath # "" /\ ParseComposerLock(fs.root, fs, lockPath) = Nil

\* C14 as stated: when the lockfile beside the root manifest cannot be read
\* or decoded, the error list of the Output of that invocation holds an error
\* for it (stated for the first invocation of the process, whose list starts
\* empty).
C14_Original ==
    pc = "done" /\ output # Nil /\ invocations = 1 /\ RootLockMalformed =>
        Deref(output).AnalysisInfo.Errors # <<>>

----------------------------------------------------------------------------
(* Properties of NormalizeLicense, checked under SpecLicense *)

IsListOfStrings(license) ==
    /\ license.type = "[]interface {}"
    /\ \A i \in DOMAIN license.elems : license.elems[i].type = "string"

\* C15 as stated: a string s gives <<s>>, a list of strings gives the same
\* list, any other shape gives the empty list, and NormalizeLicense applied
\* to a list it has returned gives that list back.
C15_Original ==
    /\ licOut # Nil =>
          Deref(licOut) =
              IF licIn.type = "string" THEN <<licIn.str>>
              ELSE IF IsListOfStrings(licIn)
                   THEN [i \in DOMAIN licIn.elems |-> licIn.elems[i].str]
                   ELSE <<>>
    /\ licAgain # Nil => licAgain = licOut

----------------------------------------------------------------------------
(* Properties of the Output of Start, checked under Spec *)

\* the workspace mapping of the Output returned
OutWorkSpaces == Deref(output).WorkSpaces

\* C16: in every workspace of a Success output, the entry stored under the
\* package name n and the version key v has Key = n "@" v.
C16_CompositeKey ==
    Succeeded =>
        \A k \in DOMAIN OutWorkSpaces :
            LET deps == OutWorkSpaces[k].Dependencies
            IN \A n \in DOMAIN deps : \A v \in DOMAIN deps[n] :
                  deps[n][v].Key = n \o "@" \o v

\* a Success output with a secondary workspace whose dependency map holds
\* the entry of a/x at version 1.0
C16_Witness ==
    /\ Succeeded
    /\ \E k \in DOMAIN OutWorkSpaces :
          /\ k # DEFAULT_WORKSPACE_CHARACTER
          /\ "a/x" \in DOMAIN OutWorkSpaces[k].Dependencies
          /\ OutWorkSpaces[k].Dependencies["a/x"]["1.0"].Key = "a/x@1.0"

\* the names of the directories between the root directory and a file found
\* in the tree, the name of the root directory included
DirsAbove(path) ==
    LET rel == StringsSplit(getRelativePath(fs.root, path), PathSeparator)
    IN <<FilepathBase(fs.root)>> \o SubSeq(rel, 1, Len(rel) - 1)

BelowVendored(names) ==
    \E i \in DOMAIN names : names[i] \in {"vendor", "node_modules"}

\* every manifest of the tree lies in or below a vendor or node_modules
\* directory
NoManifestRemains ==
    \A dirs \in DOMAIN fs.json : BelowVendored(<<FilepathBase(fs.root)>> \o dirs)

Secondaries == Deref(projectInfo).Workspaces

\* the directory of the root manifest
RootManifestDir == FilepathDir(Deref(projectInfo).ComposerJSONPath)

\* the mapping holds the root workspace under "." and the i-th secondary
\* workspace under keys[i], each entry built from its own manifest and
\* lockfile, and nothing else
KeyedBy(keys) ==
    /\ DOMAIN OutWorkSpaces = {DEFAULT_WORKSPACE_CHARACTER} \cup Range(keys)
    /\ Cardinality(DOMAIN OutWorkSpaces) = 1 + Len(Secondaries)
    /\ OutWorkSpaces[DEFAULT_WORKSPACE_CHARACTER].Dependencies =
          BuildDependencies(Deref(projectInfo).ComposerJSON, Deref(projectInfo).ComposerLock)
    /\ \A i \in DOMAIN Secondaries :
          OutWorkSpaces[keys[i]].Dependencies =
              BuildDependencies(Secondaries[i].ComposerJSON, Secondaries[i].ComposerLock)

\* the path of the workspace relative to the directory of the root manifest
RelativeWorkspacePath(w) == getRelativePath(RootManifestDir, w.Path)

\* the path of the manifest of the workspace relative to that directory
RelativeManifestPath(w) == getRelativePath(RootManifestDir, w.ComposerJSONPath)

\* C18 as stated: the keys of a Success output are "." and, for each
\* secondary workspace, the path of the workspace relative to the directory
\* of the root manifest; 1 + (number of secondary workspaces) entries, none
\* replaced by another.
C18_Original ==
    Succeeded => KeyedBy([i \in DOMAIN Secondaries |-> RelativeWorkspacePath(Secondaries[i])])

\* C18: the keys of a Success output are "." and, for each secondary
\* workspace, the path of the manifest file of the workspace (its
\* composer.json) relative to the directory of the root manifest;
\* 1 + (number of secondary workspaces) entries, none replaced by another.
C18_WorkspaceKeys ==
    Succeeded => KeyedBy([i \in DOMAIN Secondaries |-> RelativeManifestPath(Secondaries[i])])

\* a Success output with two secondary workspaces, one of them outside the
\* directory of the root manifest
C18_Witness ==
    /\ Succeeded
    /\ Len(Secondaries) = 2
    /\ Cardinality(DOMAIN OutWorkSpaces) = 3
    /\ "../b/composer.json" \in DOMAIN OutWorkSpaces

----------------------------------------------------------------------------
(* Properties of the Start lists and of the version entries, checked under *)
(* SpecWS                                                                  *)

\* the entry carries the constraint `requires` declares for its name and the
\* version key the dependency map stores for the name, "" when it stores none
CarriesConstraintAndVersion(entry, requires) ==
    /\ entry.Name \in DOMAIN requires
    /\ entry.Constraint = requires[entry.Name]
    /\ IF entry.Name \in DOMAIN Deps
       THEN DOMAIN Deps[entry.Name] = {entry.Version}
       ELSE entry.Version = ""

\* C19: every entry of Start.Dependencies carries the constraint Require
\* declares for its name, every entry of Start.DevDependencies the constraint
\* RequireDev declares for its name, and each carries as Version the version
\* key the dependency map stores for the name, or "" when the map has no
\* entry for the name.
C19_ConstraintAndVersion ==
    wsOut # Nil /\ wsJSON # Nil =>
        /\ \A i \in DOMAIN StartDeps :
              CarriesConstraintAndVersion(StartDeps[i], Deref(wsJSON).Require)
        /\ \A i \in DOMAIN StartDevDeps :
              CarriesConstraintAndVersion(StartDevDeps[i], Deref(wsJSON).RequireDev)

\* a name declared in both mappings and resolved by the lockfile, beside a
\* name of Require the lockfile does not list
C19_Witness ==
    /\ wsOut # Nil /\ wsJSON # Nil /\ wsLock # Nil
    /\ \E i, j \in DOMAIN StartDeps, k \in DOMAIN StartDevDeps :
          /\ StartDeps[i].Name = StartDevDeps[k].Name
          /\ StartDeps[i].Version # "" /\ StartDevDeps[k].Version = StartDeps[i].Version
          /\ StartDeps[i].Constraint # StartDevDeps[k].Constraint
          /\ StartDeps[j].Version = "" /\ StartDeps[j].Name \notin DOMAIN Deps

\* the packages of the lockfile in the order the two loops process them
Processed == Deref(wsLock).Packages \o Deref(wsLock).PackagesDev

\* the position in Processed of the last package named n
LastOccurrence(n) ==
    CHOOSE i \in DOMAIN Processed :
        /\ Processed[i].Name = n
        /\ \A j \in DOMAIN Processed : Processed[j].Name = n => j <= i

\* C20: whatever the lockfile lists, the dependency map has an entry for
\* exactly the names listed, each name maps to exactly one version entry, and
\* that entry is the one built from the last occurrence of the name
\* (production list in order, then development list in order); the version
\* looked up for the Start lists is that version.
C20_OneVersionPerName ==
    wsOut # Nil /\ wsLock # Nil =>
        /\ DOMAIN Deps = NamesOf(Processed)
        /\ \A n \in DOMAIN Deps :
              LET last == LastOccurrence(n)
                  pkg  == Processed[last]
              IN /\ Cardinality(DOMAIN Deps[n]) = 1
                 /\ DOMAIN Deps[n] = {pkg.Version}
                 /\ Deps[n][pkg.Version] =
                       VersionsOf(pkg, wsJSON, last > Len(Deref(wsLock).Packages))
                 /\ getResolvedVersion(n, Deps) = pkg.Version

\* a lockfile listing a name twice in the production list, with different
\* versions: the entry of the second occurrence is the one kept
C20_Witness ==
    /\ wsOut # Nil /\ wsLock # Nil
    /\ Len(Deref(wsLock).Packages) = 2 /\ Deref(wsLock).PackagesDev = <<>>
    /\ Deref(wsLock).Packages[1].Name = Deref(wsLock).Packages[2].Name
    /\ Deref(wsLock).Packages[1].Version = "2.0"
    /\ Deref(wsLock).Packages[2].Version = "1.0"
    /\ DOMAIN Deps[Deref(wsLock).Packages[1].Name] = {"1.0"}

----------------------------------------------------------------------------
(* Properties of the stages of Start, checked under Spec *)

\* the moves of an invocation from one stage to the next
StageMoves ==
    { <<"idle", "checkDir">>,
      <<"checkDir", "locate">>, <<"checkDir", "done">>,
      <<"locate", "build">>, <<"locate", "done">>,
      <<"build", "assemble">>,
      <<"assemble", "done">>,
      <<"done", "idle">> }

\* a stage fails: the directory check or the locator ends the invocation
StageFails == pc \in {"checkDir", "locate"} /\ pc' = "done"

\* a step of Start: the stages follow each other in order, none is run
\* twice, the directory check fails exactly on a missing root directory and
\* then the locator is not run, the graph builder runs only on the Project
\* the locator returned, and the error list grows by one entry when a stage
\* fails and is left alone by every other step
StageStep ==
    /\ <<pc, pc'>> \in StageMoves
    /\ pc = "checkDir" => (pc' = "done" <=> ~fs.exists)
    /\ pc = "checkDir" => projectInfo' = Nil /\ workspaces' = Nil
    /\ pc = "locate" =>
          /\ workspaces' = Nil
          /\ pc' = "build" <=> projectInfo' # Nil
    /\ pc = "build" => workspaces' # Nil /\ projectInfo' = projectInfo /\ output' = Nil
    /\ pc = "assemble" =>
          /\ workspaces' = workspaces /\ projectInfo' = projectInfo
          /\ Deref(output').AnalysisInfo.Status = SUCCESS
    /\ IF StageFails
       THEN /\ Len(errors') = Len(errors) + 1
            /\ SubSeq(errors', 1, Len(errors)) = errors
            /\ Deref(output').AnalysisInfo.Status = FAILURE
       ELSE errors' = errors

\* what the stages have produced when Start returns: the locator has not
\* returned a Project and the graph builder has not run exactly when the
\* Output is a Failure
StagesRun ==
    pc = "done" =>
        /\ output # Nil
        /\ Deref(output).AnalysisInfo.Status = FAILURE =>
              projectInfo = Nil /\ workspaces = Nil
        /\ Deref(output).AnalysisInfo.Status = SUCCESS =>
              projectInfo # Nil /\ workspaces # Nil /\ fs.exists
        /\ ~fs.exists => projectInfo = Nil /\ workspaces = Nil

\* C21: within an invocation the stages run in the order directory check,
\* locator, graph builder, assembler, each at most once; the first stage
\* that fails ends the invocation (no locator after a missing root
\* directory, no graph builder after a failed locator); a failed invocation
\* records exactly one error and a successful one records none.
C21_StagesInOrder == []StagesRun /\ [][StageStep]_vars

\* the second invocation of a process has failed in the locator, after a
\* first invocation that failed as well: one error recorded by each
C21_Witness ==
    /\ pc = "done" /\ invocations = 2
    /\ fs.exists
    /\ projectInfo = Nil /\ workspaces = Nil
    /\ Deref(output).AnalysisInfo.Status = FAILURE
    /\ Len(errors) = 2
    /\ errors[1].PrivateType = "SourceCodeDirDoesNotExist"
    /\ errors[2].PrivateType = "UNSUPPORTED_LANGUAGE_REQUESTED"

====
